---- MODULE Spec2Model ----
(***************************************************************************)
(* KmerCart backend: the cart -> order commit (OrdersService.createOrder), *)
(* the order status operations (updateOrderStatus, cancelOrder), the       *)
(* seller statistics (getVendorOrderStats) and the cart operations         *)
(* (CartService.getCart, addItem, updateItemQuantity, removeItem,          *)
(* clearCart, syncCart).                                                   *)
(*                                                                         *)
(* Every service method is an async function: each `await` on a database   *)
(* operation is one atomic step, and calls of different requests           *)
(* interleave between those steps.  A call in flight is a record in a slot *)
(* (co, cn, us, ca) holding its position (pc) and its local variables.     *)
(*                                                                         *)
(* Specifications:                                                         *)
(*   Spec          interleaved OrdersService calls on carts set up before  *)
(*   SpecFrame     the same while a product is repriced and a customer     *)
(*                 shops again                                             *)
(*   SpecTotals    one checkout with the optional amounts of its dto       *)
(*   SpecCart      one customer's cart calls, each served in one piece,    *)
(*                 on a moving catalog                                     *)
(*   SpecCartEdit  one customer's calls on every cart route, each served   *)
(*                 in one piece, on catalogs with sold-out products        *)
(*   SpecCartRace  cart calls of one customer interleaved await by await   *)
(*   SpecStats     checkouts and cancellations with sellers reading stats  *)
(***************************************************************************)
EXTENDS Integers, Sequences, FiniteSets, TLC

\* ------------------------------------------------------------------ bounds
NumCreate == 2      \* createOrder calls in one run
NumCancel == 2      \* cancelOrder calls in one run
NumUpdate == 1      \* updateOrderStatus calls in one run
MaxCalls == 3       \* OrdersService calls (of any kind) in one run
MaxQty == 2         \* largest quantity an addItem request asks for
NumCartCalls == 2   \* CartService calls racing on one cart
MaxGuest == 2       \* longest guest cart handed to syncCart

\* ---------------------------------------------------------------- universe
Customers == {"c1", "c2"}
Vendors == {"v1", "v2"}
Products == {"p1", "p2"}
NoUser == "none"
NoProduct == "none"

\* Product documents of the catalog: the seller and the first stock count.
VendorOf(p) == IF p = "p1" THEN "v1" ELSE "v2"
InitStock(p) == IF p = "p1" THEN 2 ELSE 1
InitPrice(p) == IF p = "p1" THEN 100 ELSE 50

PENDING == "PENDING"
CONFIRMED == "CONFIRMED"
PROCESSING == "PROCESSING"
SHIPPED == "SHIPPED"
DELIVERED == "DELIVERED"
CANCELLED == "CANCELLED"
OrderStatus == {PENDING, CONFIRMED, PROCESSING, SHIPPED, DELIVERED, CANCELLED}

CreateSlots == 1..NumCreate
CancelSlots == 1..NumCancel
UpdateSlots == 1..NumUpdate
CartSlots == 1..NumCartCalls

VARIABLES
    stock,        \* Product.stock, per product
    totalSales,   \* Product.totalSales, per product
    isActive,     \* Product.isActive, per product
    price,        \* Product.price, per product
    carts,        \* the carts collection: a sequence of [userId, items]
    orders,       \* the orders collection, in insertion order; _id = index
    co,           \* createOrder calls
    cn,           \* cancelOrder calls
    us,           \* updateOrderStatus calls
    ca,           \* CartService calls in flight (the concurrent cart runs)
    base,         \* the carts collection when the concurrent cart calls arrived
    reply         \* the last CartService call served and what it returned

productVars == <<stock, totalSales, isActive, price>>
callVars == <<co, cn, us>>
cartVars == <<ca, base, reply>>
vars == <<stock, totalSales, isActive, price, carts, orders, co, cn, us,
          ca, base, reply>>

\* ----------------------------------------------------------------- helpers
Last(s) == s[Len(s)]

RECURSIVE SumSeq(_)
SumSeq(s) == IF s = <<>> THEN 0 ELSE Head(s) + SumSeq(Tail(s))

Min(a, b) == IF a < b THEN a ELSE b

\* Array.prototype.filter with the predicate given as the set of kept indices.
RECURSIVE FilterIdx(_, _, _)
FilterIdx(s, keep, i) ==
    IF i > Len(s) THEN <<>>
    ELSE (IF i \in keep THEN <<s[i]>> ELSE <<>>) \o FilterIdx(s, keep, i + 1)

\* Array.prototype.findIndex on productId: 0 stands for -1 (not found).
FindIndex(items, p) ==
    LET hits == {i \in 1..Len(items) : items[i].productId = p}
    IN  IF hits = {} THEN 0 ELSE CHOOSE i \in hits : \A j \in hits : i <= j

\* cartModel.findOne({userId}): index of the first matching document, 0 if none.
FindCart(cs, u) ==
    LET hits == {i \in 1..Len(cs) : cs[i].userId = u}
    IN  IF hits = {} THEN 0 ELSE CHOOSE i \in hits : \A j \in hits : i <= j

\* cartModel.updateOne({userId}, {items}): the first match, no upsert.
UpdateCartItems(cs, u, items) ==
    LET k == FindCart(cs, u)
    IN  IF k = 0 THEN cs ELSE [cs EXCEPT ![k].items = items]

CartItems(cs, u) ==
    LET k == FindCart(cs, u) IN IF k = 0 THEN <<>> ELSE cs[k].items

\* --------------------------------------------------------------- CartService
\* getCart's filter: the lines whose product is active and in stock (a line
\* whose productId populates to no product is dropped).
\* (bug variant: the stock test is left out)
ValidItemsActiveOnly(items) ==
    FilterIdx(items,
              {i \in 1..Len(items) :
                  items[i].productId \in Products /\ isActive[items[i].productId]},
              1)

ValidItems(items) ==
    FilterIdx(items,
              {i \in 1..Len(items) :
                  /\ items[i].productId \in Products
                  /\ isActive[items[i].productId]
                  /\ stock[items[i].productId] > 0},
              1)

\* getCart: creates the empty cart when absent, else persists the filtered
\* lines when the filter removed some.
getCart(cs, u) ==
    LET k == FindCart(cs, u)
    IN  IF k = 0 THEN Append(cs, [userId |-> u, items |-> <<>>])
        ELSE IF Len(ValidItems(cs[k].items)) # Len(cs[k].items)
             THEN UpdateCartItems(cs, u, ValidItems(cs[k].items))
             ELSE cs

\* addItem's checks: the product is active, stock covers the request and, for
\* a line already in the cart, the summed quantity.
AddItemAccepts(cs, u, p, q) ==
    /\ isActive[p]
    /\ stock[p] >= q
    /\ LET k == FindCart(cs, u)
           x == IF k = 0 THEN 0 ELSE FindIndex(cs[k].items, p)
       IN  x > 0 => stock[p] >= cs[k].items[x].quantity + q

\* The cart collection after addItem's write (before its trailing getCart).
AddItemWrite(cs, u, p, q) ==
    LET k == FindCart(cs, u)
        line == [productId |-> p, quantity |-> q, price |-> price[p]]
    IN  IF k = 0 THEN Append(cs, [userId |-> u, items |-> <<line>>])
        ELSE LET x == FindIndex(cs[k].items, p)
             IN  IF x > 0
                 THEN [cs EXCEPT ![k].items[x].quantity = @ + q,
                                 ![k].items[x].price = price[p]]
                 ELSE [cs EXCEPT ![k].items = Append(@, line)]

\* addItem(userId, productId, quantity), a whole call; a rejected request
\* throws before any write and changes nothing.
addItem(u, p, q) ==
    /\ AddItemAccepts(carts, u, p, q)
    /\ carts' = getCart(AddItemWrite(carts, u, p, q), u)
    /\ UNCHANGED <<productVars, orders, callVars, cartVars>>

\* validateCartItems: the guest lines of active, in-stock products, each
\* capped at the product's stock, in the guest cart's order.
RECURSIVE validateCartItems(_)
validateCartItems(guest) ==
    IF guest = <<>> THEN <<>>
    ELSE LET g == Head(guest)
             p == g.productId
         IN  (IF isActive[p] /\ stock[p] > 0
              THEN <<[productId |-> p, quantity |-> Min(g.quantity, stock[p]),
                      price |-> price[p]]>>
              ELSE <<>>) \o validateCartItems(Tail(guest))

\* One round of syncCart's merge loop, lines 218-245, on the loaded items.
MergeLine(items, g) ==
    LET p == g.productId
        x == FindIndex(items, p)
    IN  IF ~isActive[p] \/ stock[p] < 1 THEN items
        ELSE IF x > 0
        THEN [items EXCEPT ![x].quantity = Min(@ + g.quantity, stock[p]),
                           ![x].price = price[p]]
        ELSE Append(items, [productId |-> p,
                            quantity |-> Min(g.quantity, stock[p]),
                            price |-> price[p]])

RECURSIVE MergeGuest(_, _)
MergeGuest(items, guest) ==
    IF guest = <<>> THEN items
    ELSE MergeGuest(MergeLine(items, Head(guest)), Tail(guest))

\* The cart collection after syncCart's write (before its trailing getCart).
SyncWrite(cs, u, guest) ==
    LET k == FindCart(cs, u)
    IN  IF k = 0
        THEN Append(cs, [userId |-> u, items |-> validateCartItems(guest)])
        ELSE [cs EXCEPT ![k].items = MergeGuest(@, guest)]

\* What getCart returns on the collection cs: the new empty cart, or the
\* loaded cart with its valid lines; and whether it issued the updateOne.
Returned(cs, u) ==
    LET k == FindCart(cs, u)
    IN  IF k = 0 THEN <<>> ELSE ValidItems(cs[k].items)

Healed(cs, u) ==
    LET k == FindCart(cs, u)
    IN  k # 0 /\ Len(ValidItems(cs[k].items)) # Len(cs[k].items)

\* The reply of a call served in one piece: `written` is the collection after
\* the call's own write, on which its trailing getCart runs.
ReplyOf(op, u, ok, written) ==
    [op |-> op, userId |-> u, ok |-> ok,
     items |-> IF ok THEN Returned(written, u) ELSE <<>>,
     healed |-> ok /\ Healed(written, u)]

cartGetCart(u) ==
    /\ carts' = getCart(carts, u)
    /\ reply' = ReplyOf("getCart", u, TRUE, carts)
    /\ UNCHANGED <<productVars, orders, callVars, ca, base>>

cartAddItem(u, p, q) ==
    /\ IF AddItemAccepts(carts, u, p, q)
       THEN /\ carts' = getCart(AddItemWrite(carts, u, p, q), u)
            /\ reply' = ReplyOf("addItem", u, TRUE, AddItemWrite(carts, u, p, q))
       ELSE /\ carts' = carts
            /\ reply' = ReplyOf("addItem", u, FALSE, carts)
    /\ UNCHANGED <<productVars, orders, callVars, ca, base>>

cartSyncCart(u, guest) ==
    /\ carts' = getCart(SyncWrite(carts, u, guest), u)
    /\ reply' = ReplyOf("syncCart", u, TRUE, SyncWrite(carts, u, guest))
    /\ UNCHANGED <<productVars, orders, callVars, ca, base>>

\* removeItem lines 173-188: the cart must exist; every line of the product
\* is filtered out (a product the cart does not hold leaves it as it is).
RemoveItemAccepts(cs, u) == FindCart(cs, u) # 0

RemoveItemWrite(cs, u, p) ==
    LET k == FindCart(cs, u)
    IN  [cs EXCEPT ![k].items = SelectSeq(@, LAMBDA l : l.productId # p)]

\* updateItemQuantity lines 126-168. A quantity below 1 is handed to
\* removeItem; otherwise the cart and the line must exist, the product must
\* be active and hold the quantity asked for.
\* (bug variant: the stock is not compared with the quantity asked for)
UpdateItemAcceptsAnyStock(cs, u, p, q) ==
    IF q < 1 THEN RemoveItemAccepts(cs, u)
    ELSE /\ FindCart(cs, u) # 0
         /\ FindIndex(CartItems(cs, u), p) > 0
         /\ isActive[p]

UpdateItemAccepts(cs, u, p, q) ==
    IF q < 1 THEN RemoveItemAccepts(cs, u)
    ELSE /\ FindCart(cs, u) # 0
         /\ FindIndex(CartItems(cs, u), p) > 0
         /\ isActive[p]
         /\ stock[p] >= q

\* (bug variant: a quantity below 1 is written to the line like any other)
UpdateItemWriteNoRemove(cs, u, p, q) ==
    LET k == FindCart(cs, u)
        x == FindIndex(cs[k].items, p)
    IN  IF x = 0 THEN cs
        ELSE [cs EXCEPT ![k].items[x].quantity = q,
                        ![k].items[x].price = price[p]]

UpdateItemWrite(cs, u, p, q) ==
    IF q < 1 THEN RemoveItemWrite(cs, u, p)
    ELSE LET k == FindCart(cs, u)
             x == FindIndex(cs[k].items, p)
         IN  [cs EXCEPT ![k].items[x].quantity = q,
                        ![k].items[x].price = price[p]]

\* clearCart lines 193-200: updateOne on the customer's cart, no upsert; it
\* answers with a message and does not read the cart back.
ClearWrite(cs, u) == UpdateCartItems(cs, u, <<>>)

cartUpdateItemQuantity(u, p, q) ==
    /\ IF UpdateItemAccepts(carts, u, p, q)
       THEN /\ carts' = getCart(UpdateItemWrite(carts, u, p, q), u)
            /\ reply' = ReplyOf("updateItemQuantity", u, TRUE,
                                UpdateItemWrite(carts, u, p, q))
       ELSE /\ carts' = carts
            /\ reply' = ReplyOf("updateItemQuantity", u, FALSE, carts)
    /\ UNCHANGED <<productVars, orders, callVars, ca, base>>

cartRemoveItem(u, p) ==
    /\ IF RemoveItemAccepts(carts, u)
       THEN /\ carts' = getCart(RemoveItemWrite(carts, u, p), u)
            /\ reply' = ReplyOf("removeItem", u, TRUE,
                                RemoveItemWrite(carts, u, p))
       ELSE /\ carts' = carts
            /\ reply' = ReplyOf("removeItem", u, FALSE, carts)
    /\ UNCHANGED <<productVars, orders, callVars, ca, base>>

cartClearCart(u) ==
    /\ carts' = ClearWrite(carts, u)
    /\ reply' = [op |-> "clearCart", userId |-> u, ok |-> TRUE,
                 items |-> <<>>, healed |-> FALSE]
    /\ UNCHANGED <<productVars, orders, callVars, ca, base>>

\* ------------------------------------------------- CartService, step by step
\* A call in flight in slot n of ca: pc is the await it stands before, doc the
\* cart document it loaded, loaded the items as loaded, items its local copy
\* (or the lines it is about to return), stale whether the stored array was
\* re-versioned (__v) since the load.
\*
\* cartModel.create on a collection that holds one cart per userId: a second
\* insert for the same userId is rejected, the collection is unchanged.
\* (bug variant: no uniqueness, the insert always succeeds)
InsertCartNoIndex(cs, cart) == Append(cs, cart)

InsertCart(cs, cart) ==
    IF FindCart(cs, cart.userId) # 0 THEN cs ELSE Append(cs, cart)

\* What document.save() sends for a loaded cart whose local items differ from
\* the loaded ones: the changed fields of lines that were there ($set by
\* position, guarded by the loaded __v), the lines pushed behind them ($push,
\* increments __v), or the whole array when both happened ($set of items,
\* guarded by and incrementing __v).
Changed(loaded, local) == {i \in 1..Len(loaded) : local[i] # loaded[i]}
Pushed(loaded, local) == SubSeq(local, Len(loaded) + 1, Len(local))

SaveKind(loaded, local) ==
    IF Changed(loaded, local) = {} /\ Pushed(loaded, local) = <<>> THEN "none"
    ELSE IF Pushed(loaded, local) = <<>> THEN "set"
    ELSE IF Changed(loaded, local) = {} THEN "push"
    ELSE "all"

\* $set of 'items.i.quantity' / 'items.i.price' on the stored array: the
\* element at position i is written whatever line stands there now; a
\* position past the end makes a new element that holds the written fields
\* only (no productId).
SetByPosition(stored, loaded, local) ==
    LET changed == Changed(loaded, local)
        top == CHOOSE m \in changed : \A i \in changed : i <= m
        len == IF top > Len(stored) THEN top ELSE Len(stored)
        old(j) == IF j <= Len(stored) THEN stored[j]
                  ELSE [productId |-> NoProduct, quantity |-> 0, price |-> 0]
    IN  [j \in 1..len |->
            IF j \notin changed THEN old(j)
            ELSE [old(j) EXCEPT
                    !.quantity = IF local[j].quantity # loaded[j].quantity
                                 THEN local[j].quantity ELSE @,
                    !.price = IF local[j].price # loaded[j].price
                              THEN local[j].price ELSE @]]

\* The stored items after the save, and whether the save meets a VersionError.
SaveFails(call) ==
    call.stale /\ SaveKind(call.loaded, call.items) \in {"set", "all"}

SavedItems(stored, call) ==
    LET kind == SaveKind(call.loaded, call.items)
    IN  IF kind = "set" THEN SetByPosition(stored, call.loaded, call.items)
        ELSE IF kind = "push" THEN stored \o Pushed(call.loaded, call.items)
        ELSE IF kind = "all" THEN call.items
        ELSE stored

\* A save that increments __v makes the copies other calls loaded stale.
Reversioned(n, call) ==
    [m \in CartSlots |->
        IF /\ m # n
           /\ ca[m].pc = "save"
           /\ ca[m].doc = call.doc
           /\ SaveKind(call.loaded, call.items) \in {"push", "all"}
        THEN [ca[m] EXCEPT !.stale = TRUE]
        ELSE ca[m]]

\* addItem lines 62-113 and syncCart lines 206-246: read the product(s) and
\* the cart, run the checks, prepare the document to create or to save.
cartStart(n) ==
    /\ ca[n].pc = "start"
    /\ LET c == ca[n]
           k == FindCart(carts, c.userId)
           written == IF c.op = "addItem"
                      THEN AddItemWrite(carts, c.userId, c.productId, c.quantity)
                      ELSE SyncWrite(carts, c.userId, c.guest)
       IN  ca' = [ca EXCEPT ![n] =
                    IF /\ c.op = "addItem"
                       /\ ~AddItemAccepts(carts, c.userId, c.productId, c.quantity)
                    THEN [@ EXCEPT !.pc = "rejected"]
                    ELSE [@ EXCEPT !.pc = IF k = 0 THEN "create" ELSE "save",
                                   !.doc = k,
                                   !.loaded = CartItems(carts, c.userId),
                                   !.items = CartItems(written, c.userId)]]
    /\ UNCHANGED <<productVars, carts, orders, callVars, base, reply>>

\* addItem lines 79-88 / 116 and syncCart lines 212-215 / 248: await create or
\* await save; the call goes on to its trailing getCart.
cartWrite(n) ==
    /\ ca[n].pc \in {"create", "save"}
    /\ LET c == ca[n]
           inserted == InsertCart(carts, [userId |-> c.userId, items |-> c.items])
       IN  IF c.pc = "create"
           THEN /\ carts' = inserted
                /\ ca' = [ca EXCEPT ![n].pc =
                              IF inserted = carts THEN "conflict" ELSE "read"]
           ELSE IF SaveFails(c)
           THEN /\ carts' = carts
                /\ ca' = [ca EXCEPT ![n].pc = "versionError"]
           ELSE /\ carts' = [carts EXCEPT ![c.doc].items = SavedItems(@, c)]
                /\ ca' = [Reversioned(n, c) EXCEPT ![n].pc = "read"]
    /\ UNCHANGED <<productVars, orders, callVars, base, reply>>

\* getCart lines 22-41: findOne with the products populated, the filter.
getCartRead(n) ==
    /\ ca[n].pc = "read"
    /\ LET c == ca[n]
           k == FindCart(carts, c.userId)
       IN  ca' = [ca EXCEPT ![n] =
                    IF k = 0
                    THEN [@ EXCEPT !.pc = "gcreate", !.doc = 0, !.loaded = <<>>,
                                   !.items = <<>>]
                    ELSE [@ EXCEPT !.pc = IF Healed(carts, c.userId)
                                          THEN "heal" ELSE "done",
                                   !.doc = k,
                                   !.loaded = carts[k].items,
                                   !.items = ValidItems(carts[k].items)]]
    /\ UNCHANGED <<productVars, carts, orders, callVars, base, reply>>

\* getCart lines 30-34 (create the empty cart) or 44-49 (updateOne with the
\* filtered lines), then the return.
getCartWrite(n) ==
    /\ ca[n].pc \in {"gcreate", "heal"}
    /\ LET c == ca[n]
           inserted == InsertCart(carts, [userId |-> c.userId, items |-> <<>>])
       IN  IF c.pc = "gcreate"
           THEN /\ carts' = inserted
                /\ ca' = [ca EXCEPT ![n].pc =
                              IF inserted = carts THEN "conflict" ELSE "done"]
           ELSE /\ carts' = UpdateCartItems(carts, c.userId, c.items)
                /\ ca' = [ca EXCEPT ![n].pc = "done"]
    /\ UNCHANGED <<productVars, orders, callVars, base, reply>>

\* -------------------------------------------------------------- OrdersService
\* A run holds at most MaxCalls calls of the service; the slots of one kind are
\* taken in order (they are interchangeable).
CallsStarted ==
    Cardinality({s \in CreateSlots : co[s].pc # "idle"})
    + Cardinality({k \in CancelSlots : cn[k].pc # "idle"})
    + Cardinality({j \in UpdateSlots : us[j].pc # "idle"})

CanStart(slots, n) ==
    /\ CallsStarted < MaxCalls
    /\ slots[n].pc = "idle"
    /\ n > 1 => slots[n - 1].pc # "idle"

\* createOrder's validation loop over the populated cart lines: the error of
\* the first line that fails, "ok" when every line passes.
\* (bug variant: the stock test asks for one unit instead of the line's quantity)
LineErrorAnyStock(item) ==
    IF ~isActive[item.productId] THEN "ProductUnavailable"
    ELSE IF stock[item.productId] < 1 THEN "InsufficientStock"
    ELSE "ok"

LineError(item) ==
    IF ~isActive[item.productId] THEN "ProductUnavailable"
    ELSE IF stock[item.productId] < item.quantity THEN "InsufficientStock"
    ELSE "ok"

ValidateCart(items) ==
    LET bad == {i \in 1..Len(items) : LineError(items[i]) # "ok"}
    IN  IF items = <<>> THEN "EmptyCart"
        ELSE IF bad = {} THEN "ok"
        ELSE LineError(items[CHOOSE i \in bad : \A j \in bad : i <= j])

\* The order line built from a cart line: the price is the cart's snapshot.
\* (bug variant: the line is priced at the product's price of the moment)
OrderItemCatalogPrice(item) ==
    [productId |-> item.productId,
     vendorId |-> VendorOf(item.productId),
     quantity |-> item.quantity,
     price |-> price[item.productId],
     total |-> item.quantity * price[item.productId]]

OrderItem(item) ==
    [productId |-> item.productId,
     vendorId |-> VendorOf(item.productId),
     quantity |-> item.quantity,
     price |-> item.price,
     total |-> item.quantity * item.price]

OrderItems(items) == [i \in 1..Len(items) |-> OrderItem(items[i])]

\* generateOrderNumber: countDocuments() + 1 behind the day's prefix.  All
\* calls of a run fall on one day, so the prefix is the same for all and the
\* zero-padded sequence (6 digits) distinguishes numbers exactly as count + 1.
generateOrderNumber(count) == count + 1

HistoryEntry(status, note) == [status |-> status, note |-> note]

\* The document orderModel.create persists.  Amounts of tax are kept in
\* hundredths (taxRate = 0.08 = 8/100).
TaxRatePercent == 8

\* `dto.field || 0`: an optional dto field is <<>> when the caller left it out
\* and <<x>> when it was given.
OrZero(field) == IF field = <<>> THEN 0 ELSE field[1]

\* (bug variant: the tax is taken on subtotal + shipping)
NewOrderTaxOnShipping(call, dto) ==
    LET subtotal == SumSeq([i \in 1..Len(call.orderItems) |-> call.orderItems[i].total])
    IN  [orderNumber |-> call.orderNumber,
         customerId |-> call.userId,
         items |-> call.orderItems,
         subtotal |-> subtotal,
         tax100 |-> (subtotal + OrZero(dto.shippingCost)) * TaxRatePercent,
         shippingCost |-> OrZero(dto.shippingCost),
         discount |-> OrZero(dto.discount),
         total100 |-> subtotal * 100
                      + (subtotal + OrZero(dto.shippingCost)) * TaxRatePercent
                      + OrZero(dto.shippingCost) * 100 - OrZero(dto.discount) * 100,
         status |-> PENDING,
         statusHistory |-> <<HistoryEntry(PENDING, "Order placed")>>,
         deliveredAt |-> FALSE]

NewOrder(call, dto) ==
    LET subtotal == SumSeq([i \in 1..Len(call.orderItems) |-> call.orderItems[i].total])
    IN  [orderNumber |-> call.orderNumber,
         customerId |-> call.userId,
         items |-> call.orderItems,
         subtotal |-> subtotal,
         tax100 |-> subtotal * TaxRatePercent,
         shippingCost |-> OrZero(dto.shippingCost),
         discount |-> OrZero(dto.discount),
         total100 |-> subtotal * 100 + subtotal * TaxRatePercent
                      + OrZero(dto.shippingCost) * 100 - OrZero(dto.discount) * 100,
         status |-> PENDING,
         statusHistory |-> <<HistoryEntry(PENDING, "Order placed")>>,
         deliveredAt |-> FALSE]

\* { $inc: { stock: -quantity, totalSales: quantity } } on one product.
ReduceStock(st, item) == [st EXCEPT ![item.productId] = @ - item.quantity]
AddSales(ts, item) == [ts EXCEPT ![item.productId] = @ + item.quantity]

\* createOrder, lines 42-83: read the cart with its products, validate every
\* line, build the order lines.  A failed validation throws: the call ends.
createOrderLoad(s, u) ==
    /\ CanStart(co, s)
    /\ LET items == CartItems(carts, u)
           err == ValidateCart(items)
       IN  co' = [co EXCEPT ![s] =
                    IF err # "ok"
                    THEN [@ EXCEPT !.pc = "failed", !.userId = u, !.err = err]
                    ELSE [@ EXCEPT !.pc = "validated", !.userId = u,
                                   !.orderItems = OrderItems(items)]]
    /\ UNCHANGED <<productVars, carts, orders, cn, us, cartVars>>

\* createOrder, line 93: await generateOrderNumber().
createOrderNumber(s) ==
    /\ co[s].pc = "validated"
    /\ co' = [co EXCEPT ![s].pc = "numbered",
                        ![s].orderNumber = generateOrderNumber(Len(orders))]
    /\ UNCHANGED <<productVars, carts, orders, cn, us, cartVars>>

\* createOrder, lines 96-121: await orderModel.create.
createOrderPersist(s, dto) ==
    /\ co[s].pc = "numbered"
    /\ orders' = Append(orders, NewOrder(co[s], dto))
    /\ co' = [co EXCEPT ![s].pc = "reserve", ![s].orderId = Len(orders) + 1,
                        ![s].i = 1, ![s].dto = dto]
    /\ UNCHANGED <<productVars, carts, cn, us, cartVars>>

\* createOrder, lines 124-129: one await updateOne($inc) per order line.
createOrderReduce(s) ==
    /\ co[s].pc = "reserve"
    /\ co[s].i <= Len(co[s].orderItems)
    /\ stock' = ReduceStock(stock, co[s].orderItems[co[s].i])
    /\ totalSales' = AddSales(totalSales, co[s].orderItems[co[s].i])
    /\ co' = [co EXCEPT ![s].i = @ + 1]
    /\ UNCHANGED <<isActive, price, carts, orders, cn, us, cartVars>>

\* createOrder, lines 132-142: clear the cart, then read the order back.
\* (bug variant: the order is committed and the cart is left as it was)
createOrderKeepCart(s) ==
    /\ co[s].pc = "reserve"
    /\ co[s].i > Len(co[s].orderItems)
    /\ co' = [co EXCEPT ![s].pc = "done", ![s].orderItems = <<>>, ![s].i = 0]
    /\ UNCHANGED <<productVars, carts, orders, cn, us, cartVars>>

createOrderClear(s) ==
    /\ co[s].pc = "reserve"
    /\ co[s].i > Len(co[s].orderItems)
    /\ carts' = UpdateCartItems(carts, co[s].userId, <<>>)
    /\ co' = [co EXCEPT ![s].pc = "done", ![s].orderItems = <<>>, ![s].i = 0]
    /\ UNCHANGED <<productVars, orders, cn, us, cartVars>>

\* The CreateOrderDto fields that enter the order's amounts: a checkout that
\* names neither shipping cost nor discount.
NoDto == [shippingCost |-> <<>>, discount |-> <<>>]
DtoInputs == {NoDto}

\* Checkouts with the optional amounts left out, zero, or given.
PricedDtos ==
    [shippingCost : {<<>>, <<0>>, <<10>>}, discount : {<<>>, <<0>>, <<5>>}]

\* updateOrderStatus's ownership check: order.items.some(vendorId === vendorId).
\* (bug variant: only the first line is compared)
HasVendorProductFirstLine(order, v) == order.items[1].vendorId = v

HasVendorProduct(order, v) ==
    \E i \in 1..Len(order.items) : order.items[i].vendorId = v

\* updateOrderStatus, lines 276-289: load the order, check the ownership.
updateOrderStatusLoad(j, o, v, status) ==
    /\ CanStart(us, j)
    /\ o \in 1..Len(orders)
    /\ us' = [us EXCEPT ![j] =
                IF ~HasVendorProduct(orders[o], v)
                THEN [@ EXCEPT !.pc = "forbidden", !.vendorId = v, !.orderId = o,
                               !.status = status]
                ELSE [@ EXCEPT !.pc = "save", !.vendorId = v, !.orderId = o,
                               !.status = status, !.seen = orders[o].status]]
    /\ UNCHANGED <<productVars, carts, orders, co, cn, cartVars>>

\* The order document after order.save() of updateOrderStatus, lines 292-303.
\* save() writes the paths the call changed: status when it differs from the
\* loaded one, deliveredAt when set, and the new history entry as a push onto
\* the stored array.
StatusWrite(order, seen, status) ==
    [order EXCEPT
        !.status = IF status = seen THEN @ ELSE status,
        !.statusHistory = Append(@, HistoryEntry(status, "Status updated")),
        !.deliveredAt = IF status = DELIVERED THEN TRUE ELSE @]

updateOrderStatusSave(j) ==
    /\ us[j].pc = "save"
    /\ orders' = [orders EXCEPT ![us[j].orderId] =
                    StatusWrite(@, us[j].seen, us[j].status)]
    /\ us' = [us EXCEPT ![j].pc = "done"]
    /\ UNCHANGED <<productVars, carts, co, cn, cartVars>>

\* cancelOrder's status guard, lines 322-325.
\* (bug variant: PROCESSING is let through as well)
CancellableBeforeShipped(status) ==
    status = PENDING \/ status = CONFIRMED \/ status = PROCESSING

Cancellable(status) == status = PENDING \/ status = CONFIRMED

\* cancelOrder, lines 312-329: load the order, check the owner and the status.
cancelOrderLoad(k, o, u) ==
    /\ CanStart(cn, k)
    /\ o \in 1..Len(orders)
    /\ cn' = [cn EXCEPT ![k] =
                IF orders[o].customerId # u
                THEN [@ EXCEPT !.pc = "forbidden", !.userId = u, !.orderId = o]
                ELSE IF ~Cancellable(orders[o].status)
                THEN [@ EXCEPT !.pc = "invalid", !.userId = u, !.orderId = o]
                ELSE [@ EXCEPT !.pc = "restore", !.userId = u, !.orderId = o,
                               !.i = 1]]
    /\ UNCHANGED <<productVars, carts, orders, co, us, cartVars>>

\* { $inc: { stock: quantity, totalSales: -quantity } } on one product.
\* (bug variant: one unit per line instead of the line's quantity)
RestoreStockOneUnit(st, item) == [st EXCEPT ![item.productId] = @ + 1]

RestoreStock(st, item) == [st EXCEPT ![item.productId] = @ + item.quantity]

\* (bug variant: the cancellation gives the stock back and keeps the sale)
RemoveSalesKept(ts, item) == ts

RemoveSales(ts, item) == [ts EXCEPT ![item.productId] = @ - item.quantity]

\* cancelOrder, lines 332-337: one await updateOne($inc) per order line.
cancelOrderRestore(k) ==
    /\ cn[k].pc = "restore"
    /\ cn[k].i <= Len(orders[cn[k].orderId].items)
    /\ stock' = RestoreStock(stock, orders[cn[k].orderId].items[cn[k].i])
    /\ totalSales' = RemoveSales(totalSales, orders[cn[k].orderId].items[cn[k].i])
    /\ cn' = [cn EXCEPT ![k].i = @ + 1]
    /\ UNCHANGED <<isActive, price, carts, orders, co, us, cartVars>>

\* The order document after order.save() of cancelOrder, lines 339-346.
\* (bug variant: the cancelled order's total is zeroed as a refund)
CancelWriteRefund(order) ==
    [order EXCEPT
        !.status = CANCELLED,
        !.statusHistory = Append(@, HistoryEntry(CANCELLED, "Cancelled by customer")),
        !.total100 = 0]

CancelWrite(order) ==
    [order EXCEPT
        !.status = CANCELLED,
        !.statusHistory = Append(@, HistoryEntry(CANCELLED, "Cancelled by customer"))]

cancelOrderSave(k) ==
    /\ cn[k].pc = "restore"
    /\ cn[k].i > Len(orders[cn[k].orderId].items)
    /\ orders' = [orders EXCEPT ![cn[k].orderId] = CancelWrite(@)]
    /\ cn' = [cn EXCEPT ![k].pc = "done", ![k].i = 0]
    /\ UNCHANGED <<productVars, carts, co, us, cartVars>>

\* getVendorOrderStats, lines 354-392: one find() of the orders holding a line
\* of the vendor, then the vendor's revenue and the counts by status.
\* (bug variant: an order is found by the seller of its first line only)
MatchesVendorFirstLine(order, v) == order.items[1].vendorId = v

MatchesVendor(order, v) ==
    \E i \in 1..Len(order.items) : order.items[i].vendorId = v

\* (bug variant: every line of a matched order is counted)
VendorRevenueAllLines(order, v) ==
    SumSeq([i \in 1..Len(order.items) |-> order.items[i].total])

VendorRevenue(order, v) ==
    SumSeq([i \in 1..Len(order.items) |->
               IF order.items[i].vendorId = v THEN order.items[i].total ELSE 0])

getVendorOrderStats(os, v) ==
    LET found == FilterIdx(os, {o \in 1..Len(os) : MatchesVendor(os[o], v)}, 1)
        count(status) == Cardinality({o \in 1..Len(found) : found[o].status = status})
    IN  [totalOrders |-> Len(found),
         totalRevenue |-> SumSeq([o \in 1..Len(found) |-> VendorRevenue(found[o], v)]),
         pending |-> count(PENDING),
         processing |-> count(PROCESSING),
         shipped |-> count(SHIPPED),
         delivered |-> count(DELIVERED)]

\* A getVendorOrderStats call, one find() and a loop over its result: the
\* call answers and writes nothing.
vendorStats(v) ==
    /\ reply' = [op |-> "getVendorOrderStats", userId |-> v, ok |-> TRUE,
                 items |-> <<>>, healed |-> FALSE,
                 stats |-> getVendorOrderStats(orders, v)]
    /\ UNCHANGED <<productVars, carts, orders, callVars, ca, base>>

\* Catalog Lookup: the seller (or an administrator) withdraws a product.
catalogDeactivate(p) ==
    /\ isActive[p]
    /\ isActive' = [isActive EXCEPT ![p] = FALSE]
    /\ UNCHANGED <<stock, totalSales, price, carts, orders, callVars, cartVars>>

\* Catalog Lookup: the seller reprices a product (once in a run).
RaisedPrice(p) == InitPrice(p) + 25

catalogSetPrice(p) ==
    /\ price[p] = InitPrice(p)
    /\ price' = [price EXCEPT ![p] = RaisedPrice(p)]
    /\ UNCHANGED <<stock, totalSales, isActive, carts, orders, callVars, cartVars>>

\* ------------------------------------------------------------------- Init
\* The addItem requests of a run: c1 shops both products, c2 competes for p1.
AddRequests ==
    ({"c1"} \X Products \X (1..MaxQty)) \cup ({"c2"} \X {"p1"} \X (1..MaxQty))

IdleCreate ==
    [pc |-> "idle", userId |-> NoUser, orderItems |-> <<>>, err |-> "none",
     orderNumber |-> 0, orderId |-> 0, i |-> 0, dto |-> NoDto]
IdleCancel ==
    [pc |-> "idle", userId |-> NoUser, orderId |-> 0, i |-> 0]
IdleUpdate ==
    [pc |-> "idle", vendorId |-> NoUser, orderId |-> 0, status |-> "none",
     seen |-> "none"]
IdleCartCall ==
    [pc |-> "idle", op |-> "none", userId |-> NoUser, productId |-> NoProduct,
     quantity |-> 0, guest |-> <<>>, doc |-> 0, loaded |-> <<>>, items |-> <<>>,
     stale |-> FALSE]
NoReply ==
    [op |-> "none", userId |-> NoUser, ok |-> FALSE, items |-> <<>>,
     healed |-> FALSE]

Init ==
    /\ stock = [p \in Products |-> InitStock(p)]
    /\ totalSales = [p \in Products |-> 0]
    /\ isActive = [p \in Products |-> TRUE]
    /\ price = [p \in Products |-> InitPrice(p)]
    /\ carts = <<>>
    /\ orders = <<>>
    /\ co = [s \in CreateSlots |-> IdleCreate]
    /\ cn = [k \in CancelSlots |-> IdleCancel]
    /\ us = [j \in UpdateSlots |-> IdleUpdate]
    /\ ca = [n \in CartSlots |-> IdleCartCall]
    /\ base = <<>>
    /\ reply = NoReply

\* The carts and the catalog are set up before the first OrdersService call.
setupAddItem ==
    CallsStarted = 0 /\ \E r \in AddRequests : addItem(r[1], r[2], r[3])

setupDeactivate ==
    CallsStarted = 0 /\ \E p \in Products : catalogDeactivate(p)

createOrder ==
    \E s \in CreateSlots :
        \/ \E u \in Customers : createOrderLoad(s, u)
        \/ createOrderNumber(s)
        \/ \E dto \in DtoInputs : createOrderPersist(s, dto)
        \/ createOrderReduce(s)
        \/ createOrderClear(s)

updateOrderStatus ==
    \E j \in UpdateSlots :
        \/ \E o \in 1..NumCreate, v \in Vendors, status \in OrderStatus :
              updateOrderStatusLoad(j, o, v, status)
        \/ updateOrderStatusSave(j)

cancelOrder ==
    \E k \in CancelSlots :
        \/ \E o \in 1..NumCreate, u \in Customers : cancelOrderLoad(k, o, u)
        \/ cancelOrderRestore(k)
        \/ cancelOrderSave(k)

Next ==
    \/ setupAddItem
    \/ setupDeactivate
    \/ createOrder
    \/ updateOrderStatus
    \/ cancelOrder

Spec == Init /\ [][Next]_vars

\* ----------------------------------------------- orders and a moving catalog
\* The OrdersService calls of Spec while the seller of p1 reprices it at some
\* time after the first call arrived.
catalogReprice == CallsStarted > 0 /\ catalogSetPrice("p1")

\* A customer who has ordered goes on shopping.
shopAgain ==
    /\ \E s \in CreateSlots : co[s].pc = "done" /\ co[s].userId = "c1"
    /\ addItem("c1", "p2", 1)

NextFrame ==
    \/ setupAddItem
    \/ catalogReprice
    \/ shopAgain
    \/ createOrder
    \/ updateOrderStatus
    \/ cancelOrder

SpecFrame == Init /\ [][NextFrame]_vars

\* ------------------------------------------------------ one customer's cart
\* The CartService calls of one customer, each served in one piece, while the
\* catalog moves: products are withdrawn or repriced and the customer's own
\* checkout takes stock.
CartUser == "c1"

GuestLines == [productId : Products, quantity : 1..MaxQty]
GuestCarts == UNION {[1..n -> GuestLines] : n \in 0..MaxGuest}

cartCall ==
    \/ cartGetCart(CartUser)
    \/ \E p \in Products, q \in 1..MaxQty : cartAddItem(CartUser, p, q)
    \/ \E guest \in GuestCarts : cartSyncCart(CartUser, guest)

catalogChange ==
    \E p \in Products : catalogDeactivate(p) \/ catalogSetPrice(p)

createOrderOnce ==
    \/ createOrderLoad(1, CartUser)
    \/ createOrderNumber(1)
    \/ createOrderPersist(1, NoDto)
    \/ createOrderReduce(1)
    \/ createOrderClear(1)

NextCart ==
    \/ cartCall
    \/ catalogChange
    \/ createOrderOnce

SpecCart == Init /\ [][NextCart]_vars

\* ------------------------------------------------ every cart route in turn
\* The customer's calls on every route of the cart controller, served one
\* after the other, while the catalog changes underneath; no checkout.
\* updateItemQuantity is called with any integer, among them zero and a
\* negative one.
UpdateQuantities == -1..MaxQty

\* The catalog is found with any stock up to MaxQty, sold-out products
\* among them; nothing is in a cart and no call is in flight.
InitEdit ==
    /\ stock \in [Products -> 0..MaxQty]
    /\ totalSales = [p \in Products |-> 0]
    /\ isActive = [p \in Products |-> TRUE]
    /\ price = [p \in Products |-> InitPrice(p)]
    /\ carts = <<>>
    /\ orders = <<>>
    /\ co = [s \in CreateSlots |-> IdleCreate]
    /\ cn = [k \in CancelSlots |-> IdleCancel]
    /\ us = [j \in UpdateSlots |-> IdleUpdate]
    /\ ca = [n \in CartSlots |-> IdleCartCall]
    /\ base = <<>>
    /\ reply = NoReply

cartEdit ==
    \/ \E p \in Products, q \in UpdateQuantities :
            cartUpdateItemQuantity(CartUser, p, q)
    \/ \E p \in Products : cartRemoveItem(CartUser, p)
    \/ cartClearCart(CartUser)

NextCartEdit ==
    \/ cartCall
    \/ cartEdit
    \/ catalogChange

SpecCartEdit == InitEdit /\ [][NextCartEdit]_vars

\* --------------------------------------------- concurrent calls on one cart
\* The customer's cart and the catalog are set up by calls served one after
\* the other; then NumCartCalls requests of the customer arrive together and
\* their awaits interleave.  The catalog does not move while they run.
RaceStarted == \E n \in CartSlots : ca[n].pc # "idle"

CartRequests ==
    {[op |-> "getCart", productId |-> NoProduct, quantity |-> 0, guest |-> <<>>]}
    \cup {[op |-> "addItem", productId |-> p, quantity |-> q, guest |-> <<>>] :
             p \in Products, q \in 1..MaxQty}
    \cup {[op |-> "syncCart", productId |-> NoProduct, quantity |-> 0,
            guest |-> <<g>>] : g \in GuestLines}

raceSetup ==
    /\ ~RaceStarted
    /\ \/ \E p \in Products, q \in 1..MaxQty : addItem(CartUser, p, q)
       \/ \E p \in Products : catalogDeactivate(p)

raceStart ==
    /\ ~RaceStarted
    /\ \E reqs \in [CartSlots -> CartRequests] :
          ca' = [n \in CartSlots |->
                   [IdleCartCall EXCEPT
                      !.pc = IF reqs[n].op = "getCart" THEN "read" ELSE "start",
                      !.op = reqs[n].op,
                      !.userId = CartUser,
                      !.productId = reqs[n].productId,
                      !.quantity = reqs[n].quantity,
                      !.guest = reqs[n].guest]]
    /\ base' = carts
    /\ UNCHANGED <<productVars, carts, orders, callVars, reply>>

raceStep ==
    \E n \in CartSlots :
        cartStart(n) \/ cartWrite(n) \/ getCartRead(n) \/ getCartWrite(n)

NextCartRace ==
    \/ raceSetup
    \/ raceStart
    \/ raceStep

SpecCartRace == Init /\ [][NextCartRace]_vars

\* ------------------------------------------------- checkouts with amounts
\* One createOrder call whose dto ranges over PricedDtos, on carts filled at
\* the catalog's first or raised prices.
setupSetPrice ==
    CallsStarted = 0 /\ \E p \in Products : catalogSetPrice(p)

createOrderPriced ==
    \/ \E u \in Customers : createOrderLoad(1, u)
    \/ createOrderNumber(1)
    \/ \E dto \in PricedDtos : createOrderPersist(1, dto)
    \/ createOrderReduce(1)
    \/ createOrderClear(1)

NextTotals ==
    \/ setupAddItem
    \/ setupSetPrice
    \/ createOrderPriced

SpecTotals == Init /\ [][NextTotals]_vars

\* ------------------------------------------------- orders and seller stats
\* Checkouts and cancellations with the sellers reading their stats at any
\* time in between.
sellerStats == \E v \in Vendors : vendorStats(v)

NextStats ==
    \/ setupAddItem
    \/ createOrder
    \/ cancelOrder
    \/ sellerStats

SpecStats == Init /\ [][NextStats]_vars

\* ------------------------------------------------------------- the claims
\* The step of one call, as seen in a pair of states.
createLoadStep(s) == co[s].pc = "idle" /\ co'[s].pc # "idle"
createReduceStep(s) == co[s].pc = "reserve" /\ co'[s].pc = "reserve" /\ co'[s].i # co[s].i
updateLoadStep(j) == us[j].pc = "idle" /\ us'[j].pc # "idle"
updateSaveStep(j) == us[j].pc = "save" /\ us'[j].pc = "done"
cancelLoadStep(k) == cn[k].pc = "idle" /\ cn'[k].pc # "idle"
cancelSaveStep(k) == cn[k].pc = "restore" /\ cn'[k].pc = "done"

\* The quantity of product p in the first n lines of an order.
QtyOf(items, p, n) ==
    SumSeq([i \in 1..n |-> IF items[i].productId = p THEN items[i].quantity ELSE 0])

\* What the commit of order o has taken from the stock of p so far, and what
\* the cancelOrder calls on o have given back so far.
Reserved(o, p) ==
    SumSeq([s \in CreateSlots |->
        IF co[s].orderId # o THEN 0
        ELSE IF co[s].pc = "done" THEN QtyOf(orders[o].items, p, Len(orders[o].items))
        ELSE QtyOf(orders[o].items, p, co[s].i - 1)])

Released(o, p) ==
    SumSeq([k \in CancelSlots |->
        IF cn[k].orderId # o THEN 0
        ELSE IF cn[k].pc = "done" THEN QtyOf(orders[o].items, p, Len(orders[o].items))
        ELSE IF cn[k].pc = "restore" THEN QtyOf(orders[o].items, p, cn[k].i - 1)
        ELSE 0])

\* C1: stock is never oversold: no interleaving of createOrder calls drives a
\* product's stock below zero (a decrement is applied only when stock covers it).
C1_StockNeverNegative == \A p \in Products : stock[p] >= 0

\* C2: createOrder is all-or-nothing: a reservation step that finds
\* stock < quantity (the race is lost) takes nothing, gives back what the
\* commit already took and removes the order record.
C2_RaceLostRollsBack ==
    [][\A s \in CreateSlots :
          LET call == co[s]
              item == call.orderItems[call.i]
          IN  (createReduceStep(s) /\ stock[item.productId] < item.quantity) =>
                /\ \A p \in Products :
                     stock'[p] = stock[p] + QtyOf(call.orderItems, p, call.i - 1)
                /\ \A o \in 1..Len(orders') : orders'[o] # orders[call.orderId]]_vars

\* A cart createOrder must refuse, stated on the stored cart and products.
CartInvalid(items) ==
    \/ items = <<>>
    \/ \E i \in 1..Len(items) :
          \/ ~isActive[items[i].productId]
          \/ stock[items[i].productId] < items[i].quantity

C4_UniqueOrderNumbers ==
    \A a, b \in 1..Len(orders) :
        a # b => orders[a].orderNumber # orders[b].orderNumber

\* The legal seller-driven chain.
LegalAdvance ==
    {<<PENDING, CONFIRMED>>, <<CONFIRMED, PROCESSING>>,
     <<PROCESSING, SHIPPED>>, <<SHIPPED, DELIVERED>>}

\* C5: a status change by an owning seller takes effect only along
\* PENDING->CONFIRMED->PROCESSING->SHIPPED->DELIVERED, one step at a time; any
\* other target leaves the order unchanged.
C5_LegalChainOnly ==
    [][\A j \in UpdateSlots :
          updateSaveStep(j) =>
             \/ <<orders[us[j].orderId].status, us[j].status>> \in LegalAdvance
             \/ orders' = orders]_vars

\* C6: for every order and product, the quantity released back to stock never
\* exceeds the quantity reserved at the commit, and equals it whenever the
\* order is CANCELLED.
C6_ReleaseMatchesReserve ==
    \A o \in 1..Len(orders), p \in Products :
        /\ Released(o, p) <= Reserved(o, p)
        /\ orders[o].status = CANCELLED => Released(o, p) = Reserved(o, p)

\* No call other than createOrder call s and cancelOrder call k has changed
\* a stock count.
OnlyStockChanges(s, k) ==
    /\ \A s2 \in CreateSlots \ {s} :
          co[s2].pc \in {"idle", "failed", "validated", "numbered"}
          \/ (co[s2].pc = "reserve" /\ co[s2].i = 1)
    /\ \A k2 \in CancelSlots \ {k} :
          cn[k2].pc \in {"idle", "forbidden", "invalid"}
          \/ (cn[k2].pc = "restore" /\ cn[k2].i = 1)

\* C7: cancellation is the exact inverse of the commit on stock: when an order
\* is created and then cancelled with no other stock change in between, every
\* stock count and sales counter is back at its value before the createOrder
\* and the status history ends with CANCELLED.
C7_CancelInvertsCommit ==
    [][\A k \in CancelSlots, s \in CreateSlots :
          (/\ cancelSaveStep(k)
           /\ co[s].pc = "done"
           /\ co[s].orderId = cn[k].orderId
           /\ OnlyStockChanges(s, k)) =>
             /\ \A p \in Products : stock'[p] = InitStock(p) /\ totalSales'[p] = 0
             /\ Last(orders'[cn[k].orderId].statusHistory).status = CANCELLED]_vars

\* C7 witness: an order of two lines (quantity 2 and 1) was created and then
\* cancelled, and no other call touched the stock.
C7_Witness ==
    \E k \in CancelSlots, s \in CreateSlots :
        /\ cn[k].pc = "done"
        /\ co[s].pc = "done"
        /\ co[s].orderId = cn[k].orderId
        /\ OnlyStockChanges(s, k)
        /\ Len(orders[cn[k].orderId].items) = 2
        /\ \E i \in 1..2 : orders[cn[k].orderId].items[i].quantity = 2
        /\ orders[cn[k].orderId].status = CANCELLED

\* C8: cancel passes its guards only for the owning customer while the order
\* is PENDING or CONFIRMED; another caller is refused (Forbidden), an owner of
\* an order in any other status is refused (InvalidTransition), and a refused
\* call changes neither the order nor any stock.
C8_CancelGuards ==
    [][\A k \in CancelSlots :
          /\ cancelLoadStep(k) =>
                LET o == orders[cn'[k].orderId]
                    owner == o.customerId = cn'[k].userId
                IN  /\ ~owner => cn'[k].pc = "forbidden"
                    /\ (owner /\ o.status \in {PROCESSING, SHIPPED, DELIVERED, CANCELLED})
                          => cn'[k].pc = "invalid"
                    /\ (owner /\ o.status \in {PENDING, CONFIRMED})
                          => cn'[k].pc = "restore"
                    /\ UNCHANGED <<orders, stock, totalSales>>
          /\ cn[k].pc \in {"forbidden", "invalid"} => cn'[k] = cn[k]]_vars

\* C8 witness: the owner's cancel of an order that a seller had moved past
\* CONFIRMED was refused, and the order and the stock are as the commit left them.
C8_Witness ==
    \E k \in CancelSlots :
        /\ cn[k].pc = "invalid"
        /\ orders[cn[k].orderId].customerId = cn[k].userId
        /\ orders[cn[k].orderId].status \in {PROCESSING, SHIPPED, DELIVERED}
        /\ Len(orders[cn[k].orderId].statusHistory) = 2
        /\ \A p \in Products :
              stock[p] = InitStock(p)
                         - QtyOf(orders[cn[k].orderId].items, p,
                                 Len(orders[cn[k].orderId].items))

\* C9: an order becomes CANCELLED only through the customer's cancel and only
\* directly from PENDING or CONFIRMED: every CANCELLED history entry was
\* written by cancelOrder and follows a PENDING or CONFIRMED entry.
C9_CancelledOnlyByCancel ==
    \A o \in 1..Len(orders) :
        \A n \in 1..Len(orders[o].statusHistory) :
            orders[o].statusHistory[n].status = CANCELLED =>
                /\ n > 1
                /\ orders[o].statusHistory[n - 1].status \in {PENDING, CONFIRMED}
                /\ orders[o].statusHistory[n].note = "Cancelled by customer"

\* C10: advance by an actor who owns no line of the order is refused
\* (Forbidden) whatever the target status, and changes nothing of the order; an
\* actor owning at least one line passes the ownership check.
C10_OwnershipCheck ==
    [][\A j \in UpdateSlots :
          /\ updateLoadStep(j) =>
                LET o == orders[us'[j].orderId]
                    ownsNone == \A i \in 1..Len(o.items) : o.items[i].vendorId # us'[j].vendorId
                IN  /\ ownsNone <=> us'[j].pc = "forbidden"
                    /\ ~ownsNone => us'[j].pc = "save"
                    /\ orders' = orders
          /\ us[j].pc = "forbidden" => us'[j] = us[j]]_vars

\* C10 witness: a seller with no product in the order asked for SHIPPED and
\* was refused; the order is still PENDING with its single history entry.
C10_Witness ==
    \E j \in UpdateSlots :
        /\ us[j].pc = "forbidden"
        /\ us[j].status = SHIPPED
        /\ orders[us[j].orderId].status = PENDING
        /\ Len(orders[us[j].orderId].statusHistory) = 1
        /\ ~orders[us[j].orderId].deliveredAt
\* The sum of quantity * unitPrice over the lines of an order.
LineSum(items) ==
    SumSeq([i \in 1..Len(items) |-> items[i].quantity * items[i].price])

\* C11: the amounts of every created order follow from its lines and the
\* checkout's dto: lineTotal = quantity * unitPrice, subtotal = sum of the
\* lineTotals, tax = 8% of the subtotal, total = subtotal + tax + shippingCost
\* - discount, with shippingCost and discount the caller's values or 0.
C11_OrderTotals ==
    \A s \in CreateSlots :
        co[s].orderId # 0 /\ co[s].orderId <= Len(orders) =>
            LET o == orders[co[s].orderId]
                given == co[s].dto
                shipping == IF given.shippingCost = <<>> THEN 0
                            ELSE given.shippingCost[1]
                discount == IF given.discount = <<>> THEN 0 ELSE given.discount[1]
            IN  /\ \A i \in 1..Len(o.items) :
                       o.items[i].total = o.items[i].quantity * o.items[i].price
                /\ o.subtotal = LineSum(o.items)
                /\ o.tax100 = 8 * o.subtotal
                /\ o.shippingCost = shipping
                /\ o.discount = discount
                /\ o.total100 = 100 * o.subtotal + o.tax100
                                + 100 * o.shippingCost - 100 * o.discount

\* Lines 2 @ 100 and 1 @ 50 with shipping 10: subtotal 250, tax 20, total 280.
C11_Witness ==
    \E o \in 1..Len(orders) :
        /\ Len(orders[o].items) = 2
        /\ \E i, j \in 1..2 :
              /\ orders[o].items[i].quantity = 2 /\ orders[o].items[i].price = 100
              /\ orders[o].items[j].quantity = 1 /\ orders[o].items[j].price = 50
        /\ orders[o].shippingCost = 10
        /\ orders[o].discount = 0
        /\ orders[o].subtotal = 250
        /\ orders[o].tax100 = 2000
        /\ orders[o].total100 = 28000

\* A history that a step only appends to, the first history of a new order,
\* and the agreement of the last entry with the status.
IsPrefix(a, b) == Len(a) <= Len(b) /\ SubSeq(b, 1, Len(a)) = a

HistoryGrows ==
    \A o \in 1..Len(orders) :
        /\ o <= Len(orders')
        /\ IsPrefix(orders[o].statusHistory, orders'[o].statusHistory)

HistoryStarts ==
    \A o \in 1..Len(orders') :
        o > Len(orders) =>
            /\ orders'[o].statusHistory = <<[status |-> PENDING, note |-> "Order placed"]>>
            /\ orders'[o].status = PENDING

LastEntryIsStatus ==
    \A o \in 1..Len(orders) :
        orders[o].statusHistory[Len(orders[o].statusHistory)].status = orders[o].status

\* C12: an order's statusHistory only grows by appending (the history before
\* a step is a prefix of the history after it, also when an advance and a
\* cancel interleave), and the status of its last entry is the order's
\* current status, from the single entry {PENDING, "Order placed"} on.
C12_HistoryAppendOnly ==
    [](LastEntryIsStatus) /\ [][HistoryGrows /\ HistoryStarts]_vars

\* The fields of an order that are fixed at creation.
Frozen(order) ==
    <<order.orderNumber, order.customerId, order.items, order.subtotal,
      order.tax100, order.shippingCost, order.discount, order.total100>>

\* C13: once created, an order keeps its orderNumber, customerId, line items
\* and subtotal / tax / shippingCost / discount / total through every
\* operation (advance, cancel, cart operations, later createOrder calls, later
\* catalog price or stock changes); only status, statusHistory and deliveredAt
\* of an existing order change.
C13_OrderImmutable ==
    [][\A o \in 1..Len(orders) :
          /\ o <= Len(orders')
          /\ Frozen(orders'[o]) = Frozen(orders[o])
          /\ DOMAIN orders'[o] = DOMAIN orders[o]]_vars

\* An order that was cancelled, whose product was repriced after it was
\* placed and whose stock moved, next to a later order.
C13_Witness ==
    \E o \in 1..Len(orders) :
        /\ orders[o].status = CANCELLED
        /\ Len(orders) > o
        /\ \E i \in 1..Len(orders[o].items) :
              /\ price[orders[o].items[i].productId] # orders[o].items[i].price
              /\ stock[orders[o].items[i].productId]
                    # InitStock(orders[o].items[i].productId)

\* The lines (order, position) owned by a seller and the sum of their totals.
OwnedLines(v) ==
    UNION {{<<o, i>> : i \in {j \in 1..Len(orders[o].items) :
                                 orders[o].items[j].vendorId = v}} :
           o \in 1..Len(orders)}

RECURSIVE SumLineTotals(_)
SumLineTotals(lines) ==
    IF lines = {} THEN 0
    ELSE LET l == CHOOSE x \in lines : TRUE
         IN  orders[l[1]].items[l[2]].total + SumLineTotals(lines \ {l})

\* C14: getVendorOrderStats(X).totalRevenue is the sum of the line totals of
\* exactly the lines owned by X, over the orders that hold at least one line
\* of X; lines of other sellers in those orders never contribute.
C14_VendorRevenue ==
    \A v \in Vendors :
        getVendorOrderStats(orders, v).totalRevenue = SumLineTotals(OwnedLines(v))

\* An order with lines of both sellers: 100 of v1 and 50 of v2.
C14_Witness ==
    /\ \E o \in 1..Len(orders) :
          MatchesVendor(orders[o], "v1") /\ MatchesVendor(orders[o], "v2")
    /\ getVendorOrderStats(orders, "v1").totalRevenue = 100
    /\ getVendorOrderStats(orders, "v2").totalRevenue = 50

\* The quantity of a product in the lines getCart returns to a customer.
VisibleQty(u, p) ==
    LET shown == ValidItems(CartItems(carts, u))
    IN  QtyOf(shown, p, Len(shown))

\* C15: the quantity of a product visible in the cart that getCart returns
\* (summed over the cart's lines for that product) never exceeds the
\* product's current stock, whatever addItem calls, merges and orders of
\* other customers came before.
C15_VisibleQtyWithinStock ==
    \A u \in Customers, p \in Products : VisibleQty(u, p) <= stock[p]

\* The quantity of product p in a cart, summed over its lines, and the
\* quantity a guest cart asks for.
CartQty(items, p) == QtyOf(items, p, Len(items))
GuestQty(guest, p) == QtyOf(guest, p, Len(guest))

\* C16: after merge(customerId, guestItems), for every guest line whose
\* product is active with stock >= 1 the cart quantity of that product is
\* min(existing cart quantity + guest quantity, current stock), the existing
\* quantity being 0 without a cart or a line; guest lines of inactive or
\* zero-stock products add nothing; cart lines of products not in guestItems
\* keep their quantity.
C16_MergeClampsToStock ==
    [][\A guest \in GuestCarts :
          cartSyncCart(CartUser, guest) =>
              LET before == CartItems(carts, CartUser)
                  after == CartItems(carts', CartUser)
              IN  \A p \in Products :
                      IF GuestQty(guest, p) = 0
                      THEN CartQty(after, p) = CartQty(before, p)
                      ELSE IF isActive[p] /\ stock[p] >= 1
                      THEN CartQty(after, p) =
                             Min(CartQty(before, p) + GuestQty(guest, p), stock[p])
                      ELSE CartQty(after, p) <= CartQty(before, p)]_vars

\* C17: addItem succeeds only if the product is active and stock >= (quantity
\* already in the cart for that product + quantity); on success the
\* product's cart quantity is that sum at the product's current price and the
\* cart exists; a failed addItem leaves the persisted cart unchanged.
C17_AddItemContract ==
    [][\A p \in Products, q \in 1..MaxQty :
          cartAddItem(CartUser, p, q) =>
              LET before == CartItems(carts, CartUser)
                  after == CartItems(carts', CartUser)
              IN  /\ reply'.ok =>
                        /\ isActive[p]
                        /\ stock[p] >= CartQty(before, p) + q
                        /\ FindCart(carts', CartUser) # 0
                        /\ CartQty(after, p) = CartQty(before, p) + q
                        /\ after[FindIndex(after, p)].price = price[p]
                  /\ ~reply'.ok => carts' = carts]_vars

\* The lines of active, in-stock products, in their order.
RECURSIVE Sellable(_)
Sellable(items) ==
    IF items = <<>> THEN <<>>
    ELSE IF isActive[Head(items).productId] /\ stock[Head(items).productId] > 0
    THEN <<Head(items)>> \o Sellable(Tail(items))
    ELSE Sellable(Tail(items))

\* C18: get(customerId) returns exactly the cart's lines whose product
\* exists, is active and has stock > 0, in their original order, and when it
\* returns the persisted cart holds the lines it returned; a customer without
\* a cart gets an empty cart, which is persisted.
C18_GetReturnsSellableLines ==
    [][cartGetCart(CartUser) =>
          /\ reply'.items = Sellable(CartItems(carts, CartUser))
          /\ FindCart(carts', CartUser) # 0
          /\ CartItems(carts', CartUser) = reply'.items
          /\ FindCart(carts, CartUser) = 0 =>
                /\ reply'.items = <<>>
                /\ carts' = Append(carts, [userId |-> CartUser, items |-> <<>>])]_vars

\* A get that dropped a line of a withdrawn or sold-out product, kept another
\* and left the kept lines in the stored cart.
C18_Witness ==
    /\ reply.op = "getCart"
    /\ reply.healed
    /\ reply.items # <<>>
    /\ CartItems(carts, CartUser) = reply.items

\* A call served alone on the collection cs, and the calls of the slots
\* served one after the other in a given order.
ServeAlone(cs, call) ==
    IF call.op = "getCart" THEN getCart(cs, call.userId)
    ELSE IF call.op = "syncCart"
    THEN getCart(SyncWrite(cs, call.userId, call.guest), call.userId)
    ELSE IF AddItemAccepts(cs, call.userId, call.productId, call.quantity)
    THEN getCart(AddItemWrite(cs, call.userId, call.productId, call.quantity),
                 call.userId)
    ELSE cs

RECURSIVE ServeInOrder(_, _, _)
ServeInOrder(order, i, cs) ==
    IF i = 0 THEN cs
    ELSE ServeAlone(ServeInOrder(order, i - 1, cs), ca[order[i]])

ServeOrders ==
    {f \in [CartSlots -> CartSlots] : \A a, b \in CartSlots : a # b => f[a] # f[b]}

\* C19: no concurrent cart mutation of one customer is silently lost: when
\* the interleaved cart calls of a customer all report success, the persisted
\* cart is the one that serving them one after the other, in some order,
\* leaves.
C19_NoLostCartUpdate ==
    (\A n \in CartSlots : ca[n].pc = "done") =>
        \E order \in ServeOrders : carts = ServeInOrder(order, NumCartCalls, base)

C21_QuantityAtLeastOne ==
    \A k \in 1..Len(carts) : \A i \in 1..Len(carts[k].items) :
        carts[k].items[i].quantity >= 1

\* updateItemQuantity has answered and the cart still holds a line.
C21_Witness ==
    /\ reply.op = "updateItemQuantity"
    /\ reply.ok
    /\ CartItems(carts, CartUser) # <<>>

\* ---------------------------------------------------------------- C22
\* Two createOrder calls of one customer; the cart is not touched between
\* them (carts are filled before the first call only).
InFlight(c) == c.pc \in {"validated", "numbered", "reserve"}
Ended(c) == c.pc \in {"done", "failed"}

SameCustomer(s, t) ==
    s # t /\ co[s].userId # NoUser /\ co[s].userId = co[t].userId

\* The statement as the specification has it: whenever one submission of a
\* customer has created its order, the customer's other submission, once it
\* has ended, has created one too.
C22_EverySubmissionCreatesAnOrder ==
    \A s, t \in CreateSlots :
        (SameCustomer(s, t) /\ co[s].pc = "done" /\ Ended(co[t]))
            => co[t].pc = "done"

\* Two submissions of one customer that both created an order left two
\* orders of that customer with the same lines.
TwoOrdersOfOneCart ==
    \A s, t \in CreateSlots :
        (SameCustomer(s, t) /\ co[s].pc = "done" /\ co[t].pc = "done")
            => /\ co[s].orderId # co[t].orderId
               /\ orders[co[s].orderId].customerId = co[s].userId
               /\ orders[co[t].orderId].customerId = co[s].userId
               /\ orders[co[s].orderId].items = orders[co[t].orderId].items

\* A submission of the customer has run to its end and cleared the cart.
Cleared(u) == \E t \in CreateSlots : co[t].userId = u /\ co[t].pc = "done"

\* The second submission reads the cart: after the first has returned it
\* finds the cart empty and is rejected; while the first is in flight and has
\* not cleared the cart, it is accepted when every line is still in stock,
\* and then orders the same lines.
SecondSubmission ==
    \A s, t \in CreateSlots : \A u \in Customers :
        (s # t /\ co[t].userId = u /\ createOrderLoad(s, u))
            => /\ co[t].pc = "done"
                    => co'[s].pc = "failed" /\ co'[s].err = "EmptyCart"
               /\ (InFlight(co[t]) /\ ~Cleared(u))
                    => /\ co'[s].pc = "validated"
                            => co'[s].orderItems = co[t].orderItems
                       /\ (\A i \in 1..Len(co[t].orderItems) :
                              LET l == co[t].orderItems[i]
                              IN  isActive[l.productId]
                                  /\ stock[l.productId] >= l.quantity)
                            => co'[s].pc = "validated"

\* C22: order creation is not deduplicated: a second createOrder of the same
\* customer that reads the cart while the first is in flight and has not yet
\* cleared it creates its own order for the same lines when the stock still
\* covers them, so two orders exist afterwards; a second createOrder that
\* arrives after the first has returned finds the cart empty, is rejected
\* and creates no order.
C22_DuplicateOnlyWhileInFlight ==
    []TwoOrdersOfOneCart /\ [][SecondSubmission]_vars

\* Both submissions of one customer have created an order.
C22_Witness ==
    \E s, t \in CreateSlots :
        SameCustomer(s, t) /\ co[s].pc = "done" /\ co[t].pc = "done"

\* ---------------------------------------------------------------- C23
\* C23: the counts by status that getVendorOrderStats returns add up to its
\* totalOrders: every order holding a line of the seller is counted in the
\* bucket of its current status, whichever of the six statuses that is.
C23_StatusCountsSumToTotal ==
    \A v \in Vendors :
        LET stats == getVendorOrderStats(orders, v)
        IN  stats.pending + stats.processing + stats.shipped + stats.delivered
                = stats.totalOrders

\* ---------------------------------------------------------------- C24
\* The lines of products other than p, in their order.
RECURSIVE Without(_, _)
Without(items, p) ==
    IF items = <<>> THEN <<>>
    ELSE IF Head(items).productId = p THEN Without(Tail(items), p)
    ELSE <<Head(items)>> \o Without(Tail(items), p)

\* C24: updateItemQuantity with a quantity below 1 does what removeItem does:
\* it fails without a cart, and otherwise the product's line is gone from the
\* cart.  With a quantity of at least 1 on a line present in the cart it
\* succeeds only if the product is active and stock >= quantity, and then
\* the line holds exactly that quantity at the product's current price.  A
\* failed call leaves the stored cart unchanged.
C24_UpdateQuantityContract ==
    [][\A p \in Products, q \in UpdateQuantities :
          cartUpdateItemQuantity(CartUser, p, q) =>
              LET before == CartItems(carts, CartUser)
                  after == CartItems(carts', CartUser)
              IN  /\ q < 1 =>
                        /\ reply'.ok = (FindCart(carts, CartUser) # 0)
                        /\ reply'.ok =>
                              /\ FindIndex(after, p) = 0
                              /\ after = Sellable(Without(before, p))
                        /\ carts' = IF RemoveItemAccepts(carts, CartUser)
                                    THEN getCart(RemoveItemWrite(carts, CartUser, p),
                                                 CartUser)
                                    ELSE carts
                  /\ (q >= 1 /\ FindIndex(before, p) > 0) =>
                        /\ reply'.ok => isActive[p] /\ stock[p] >= q
                        /\ reply'.ok =>
                              /\ FindIndex(after, p) > 0
                              /\ after[FindIndex(after, p)].quantity = q
                              /\ after[FindIndex(after, p)].price = price[p]
                  /\ ~reply'.ok => carts' = carts]_vars

\* updateItemQuantity has overwritten a line of quantity MaxQty with 1, at a
\* price raised since the line was put into the cart.
C24_Witness ==
    /\ reply.op = "updateItemQuantity"
    /\ reply.ok
    /\ \E i \in 1..Len(reply.items) :
          /\ reply.items[i].quantity = 1
          /\ reply.items[i].price = RaisedPrice(reply.items[i].productId)
          /\ stock[reply.items[i].productId] = MaxQty

\* ---------------------------------------------------------------- C25
\* C25: in every stored cart each product appears in at most one line, after
\* any sequence of addItem, updateItemQuantity, removeItem, clearCart and
\* syncCart calls, a syncCart for a customer without a cart whose guest items
\* list one product more than once included.
C25_OneLinePerProduct ==
    \A k \in 1..Len(carts) : \A i, j \in 1..Len(carts[k].items) :
        carts[k].items[i].productId = carts[k].items[j].productId => i = j

\* ---------------------------------------------------------------- C26
\* C26: for every product, stock + totalSales is the same in every reachable
\* state: createOrder takes a line's quantity from the stock and adds it to
\* the sales in one update, cancelOrder does the reverse, and no cart call
\* and no updateOrderStatus changes either.
C26_StockPlusSalesConstant ==
    \A p \in Products : stock[p] + totalSales[p] = InitStock(p)

\* An order was cancelled and its stock given back while another order's
\* sale stands.
C26_Witness ==
    /\ \E k \in CancelSlots : cn[k].pc = "done"
    /\ \E p \in Products : totalSales[p] > 0
    /\ \E o \in 1..Len(orders) : orders[o].status = CANCELLED

\* ---------------------------------------------------------------- C27
\* The revenue over all sellers as getVendorOrderStats reports it, and the
\* subtotals of all orders.
RECURSIVE RevenueOfSellers(_)
RevenueOfSellers(vs) ==
    IF vs = {} THEN 0
    ELSE LET v == CHOOSE x \in vs : TRUE
         IN  getVendorOrderStats(orders, v).totalRevenue
             + RevenueOfSellers(vs \ {v})

SubtotalOfOrders == SumSeq([o \in 1..Len(orders) |-> orders[o].subtotal])

\* C27: getVendorOrderStats partitions the revenue and writes nothing: the
\* totalRevenue of all sellers adds up to the subtotals of all orders, with
\* the orders of every status (CANCELLED too) counted, and a call leaves
\* orders, carts, stock and sales counters as they were.
C27_StatsPartitionRevenue ==
    /\ [](RevenueOfSellers(Vendors) = SubtotalOfOrders)
    /\ [][\A v \in Vendors :
            vendorStats(v) =>
                /\ UNCHANGED <<orders, carts, stock, totalSales, isActive, price>>
                /\ reply'.stats = getVendorOrderStats(orders', v)]_vars

\* A seller has read the stats of two orders, one of them cancelled and one
\* holding a line of each seller.
C27_Witness ==
    /\ reply.op = "getVendorOrderStats"
    /\ reply.stats.totalOrders = 2
    /\ reply.stats.totalRevenue > 0
    /\ \E o \in 1..Len(orders) : orders[o].status = CANCELLED
    /\ \E o \in 1..Len(orders) :
          MatchesVendor(orders[o], "v1") /\ MatchesVendor(orders[o], "v2")

\* ---------------------------------------------------------------- C28
\* C28: a successful createOrder takes from the cart only what it ordered:
\* every line that stands in the customer's cart when the call clears it and
\* whose product is on no line of the created order (a line added while the
\* call was in flight) is still in the cart after the call.
C28_ClearsOnlyOrderedLines ==
    [][\A s \in CreateSlots :
          createOrderClear(s) =>
              LET before == CartItems(carts, co[s].userId)
                  after == CartItems(carts', co[s].userId)
                  ordered == {co[s].orderItems[j].productId :
                                 j \in 1..Len(co[s].orderItems)}
              IN  \A i \in 1..Len(before) :
                      before[i].productId \notin ordered
                          => \E k \in 1..Len(after) : after[k] = before[i]]_vars

\* ---------------------------------------------------------------- C29
\* C29: every line of a created order carries the price stored on the cart
\* line it was made from, not the product's price at the time of the
\* checkout: unitPrice, lineTotal, subtotal and total of the order follow
\* from the price snapshots of the cart the call read, whatever the catalog
\* says by then or later.
C29_OrderPricedFromCart ==
    [][\A s \in CreateSlots :
          /\ \A u \in Customers :
                (createOrderLoad(s, u) /\ co'[s].pc = "validated") =>
                    LET cart == CartItems(carts, u)
                        lines == co'[s].orderItems
                    IN  /\ Len(lines) = Len(cart)
                        /\ \A i \in 1..Len(cart) :
                              /\ lines[i].productId = cart[i].productId
                              /\ lines[i].quantity = cart[i].quantity
                              /\ lines[i].price = cart[i].price
                              /\ lines[i].total = cart[i].quantity * cart[i].price
          /\ \A dto \in PricedDtos :
                createOrderPersist(s, dto) =>
                    LET o == orders'[Len(orders')]
                        sum == SumSeq([i \in 1..Len(co[s].orderItems) |->
                                          co[s].orderItems[i].total])
                    IN  /\ o.items = co[s].orderItems
                        /\ o.subtotal = sum
                        /\ o.total100 = 100 * sum + TaxRatePercent * sum
                                        + 100 * o.shippingCost
                                        - 100 * o.discount]_vars

\* An order line at the price of the day it was put into the cart, of a
\* product that was repriced before the checkout.
C29_Witness ==
    \E o \in 1..Len(orders) : \E i \in 1..Len(orders[o].items) :
        LET l == orders[o].items[i]
        IN  /\ l.price = InitPrice(l.productId)
            /\ price[l.productId] = RaisedPrice(l.productId)
            /\ l.total = l.quantity * InitPrice(l.productId)

====
